---- MODULE Spec2Model ----
(***************************************************************************)
(* Replication core of the thoughtspace data provider (yjs):               *)
(* mutex, taskQueue, updateQueue (isPushing), doclog, doc registry.        *)
(* Source: src/unnamed/part_000.                                           *)
(*                                                                         *)
(* Execution model: one JavaScript executor. An action is one run to       *)
(* completion: a call made by the environment, an event (remote doclog     *)
(* delta, IndexedDB request completion, timer) or a promise continuation.  *)
(* Continuations that are already due (microtasks) run before the next     *)
(* event or timer.                                                         *)
(***************************************************************************)
EXTENDS Naturals, Sequences, FiniteSets, Bags

\* ------------------------------------------------------------------ bounds

\* taskQueue's concurrency parameter. replicationQueue uses the default (8);
\* the model runs the same code with a smaller limit so that the limit binds.
concurrency == 2

\* most tasks ever submitted to the queue in one behaviour
MaxTasks == 4

\* most tasks passed to one add call of the abstract queue
MaxBatch == 2

\* longest doclog array
MaxLog == 4

\* most calls of the data provider's functions in one behaviour
MaxCalls == 2

\* --------------------------------------------------------------- constants

\* enum DocLogAction
Delete == 0
Update == 1

HOME_TOKEN == "__ROOT__"

ThoughtIds == {HOME_TOKEN, "x"}
LexemeKeys == {"x"}
Kinds == {"thought", "lexeme"}
KeysOf(kind) == IF kind = "thought" THEN ThoughtIds ELSE LexemeKeys

\* encodeThoughtDocumentName / encodeLexemeDocumentName: "<tsid>/<kind>/<id>",
\* one name per kind and id (tsid is fixed).
documentName(kind, key) == <<kind, key>>

\* ------------------------------------------------------------------- state

VARIABLES
  locked,      \* mutex: locked
  waiters,     \* mutex: lock() calls that found the mutex held, oldest first
  total,       \* taskQueue: total
  running,     \* taskQueue: running
  complete,    \* taskQueue: complete
  queue,       \* taskQueue: queue (task numbers, head first)
  pending,     \* the add or tick call that holds the mutex and awaits its continuation
  timers,      \* number of setTimeout(tick) callbacks not yet run
  tasks,       \* per submitted task: what it does (<<"job">>, or a doclog entry <<id, action>>)
  status,      \* per submitted task: "submitted" | "queued" | "running" | "fulfilled" | "resolved" | "rejected"
  steps,       \* the onStep calls made so far, as <<current, total>>
  ended,       \* number of times the end condition of onEnd held
  stale,       \* tasks started after a task of a newer entry of the same id was submitted
  providers,   \* process.env.NODE_ENV !== 'test': docs get IndexedDB and websocket providers
  doclog,      \* doclog: [thought |-> thoughtLog, lexeme |-> lexemeLog], arrays of <<id, action>>
  docs,        \* [thought |-> ids of thoughtDocs, lexeme |-> keys of lexemeDocs]
  persistence, \* ids of thoughtPersistence / lexemePersistence (and of the websocket provider tables)
  databases,   \* names of the IndexedDB databases that exist
  updateQueue, \* updateQueue: the keys in it
  isPushing,   \* pushStore: isPushing as last set
  conts,       \* bag of continuations waiting on whenSynced, on deleteDB or on a resolved promise
  dispatched,  \* the last action given to store.dispatch
  clearing,    \* clear: whether a call is in progress, and its delete promises still unsettled
  owed,        \* bag of keys: enqueue calls whose operation has not made its dequeue call yet
  live,        \* bag of document names: Y.Docs created and not destroyed
  observers,   \* bag of document names: onThoughtChange / onLexemeChange observers attached
  filled,      \* names of the registered docs whose root map is not empty
  rootSynced,  \* the rootSynced promise: whether it is resolved, and with what
  attached, \* names of the docs that were destroyed with their observer still attached
  got, \* what the last getThoughtById / getLexemeById call that ended gave
  returned, \* per updateThoughts call that is followed, the promise it returned: members unsettled, resolved
  state,       \* the application state: the ids in thoughtIndex and the keys in lexemeIndex (followed in SpecObserver only)
  timeouts,    \* the setTimeout callbacks of the entity observers not yet run, oldest first
  rejections,  \* the promises returned by the data provider's functions that rejected
  ydoc,        \* per replica, the content of one entity doc: root map fields, nested maps, their entries
  clientOrder, \* the order of the Yjs client ids, which decides between concurrent sets of one key
  appState,    \* per device, the childrenMap of the thought in the application state
  added,       \* per device, the children it has added to the thought
  written,     \* the last write to the doc of a replica: the entity written and what the doc projected to
  calls,       \* number of calls of the data provider's functions so far
  events,      \* number of remote doclog transactions observed so far
  call         \* the arguments of the last updateThoughts call and the doclog it found

qvars == <<locked, waiters, total, running, complete, queue, pending, timers, tasks, status, steps, ended, stale>>

tvars == <<docs, persistence, databases, updateQueue, isPushing, conts, dispatched, owed, live, observers, filled, rootSynced, attached, got, returned, state, timeouts, rejections>>

\* The content of entity docs (followed in SpecCodec and SpecMerge only).
yvars == <<ydoc, clientOrder, appState, added, written>>

\* What the replicator's operations never write.
pvars == <<providers, yvars>>

rvars == <<pvars, doclog, tvars, clearing, calls, events, call>>

vars == <<qvars, rvars>>

thoughtLog == doclog.thought
lexemeLog == doclog.lexeme
thoughtDocs == docs.thought
lexemeDocs == docs.lexeme

NoPending == [kind |-> "none", tasks |-> <<>>]

NoCall == [n |-> 0, thoughtIndexUpdates |-> <<>>, lexemeIndexUpdates |-> <<>>,
           doclog |-> [thought |-> <<>>, lexeme |-> <<>>]]

\* The numbers of the tasks in the given state.
TasksIn(s) == {t \in 1..Len(status) : status[t] = s}

\* A continuation is due now: it runs before any event or timer.
Microtasks ==
  \/ pending.kind # "none"
  \/ TasksIn("fulfilled") # {}
  \/ \E c \in BagToSet(conts) : ~c.io

\* ------------------------------------------------- the replicator's tables

\* The tables a synchronous stretch of code reads and writes, as one record.
Tables ==
  [docs |-> docs, persistence |-> persistence, databases |-> databases,
   updateQueue |-> updateQueue, isPushing |-> isPushing, conts |-> conts,
   dispatched |-> dispatched, owed |-> owed, live |-> live, observers |-> observers,
   filled |-> filled, rootSynced |-> rootSynced,
   attached |-> attached, got |-> got,
   returned |-> returned,
   state |-> state, timeouts |-> timeouts,
   rejections |-> rejections]

Store(R) ==
  /\ docs' = R.docs
  /\ persistence' = R.persistence
  /\ databases' = R.databases
  /\ updateQueue' = R.updateQueue
  /\ isPushing' = R.isPushing
  /\ conts' = R.conts
  /\ dispatched' = R.dispatched
  /\ owed' = R.owed
  /\ live' = R.live
  /\ observers' = R.observers
  /\ filled' = R.filled
  /\ rootSynced' = R.rootSynced
  /\ attached' = R.attached
  /\ got' = R.got
  /\ returned' = R.returned
  /\ state' = R.state
  /\ timeouts' = R.timeouts
  /\ rejections' = R.rejections

\* A continuation. io: it waits for an IndexedDB request; otherwise it is due.
Cont(op, kind, key, task, owner, io) ==
  [op |-> op, kind |-> kind, key |-> key, task |-> task, owner |-> owner, io |-> io]

Await(R, c) == [R EXCEPT !.conts = @ (+) SetToBag({c})]

Without(R, c) == [R EXCEPT !.conts = @ (-) SetToBag({c})]

\* store.dispatch(alert(msg))
alert(R, msg) == [R EXCEPT !.dispatched = [type |-> "alert", value |-> msg]]

\* A rejected whenSynced or deleteDB promise meets .catch(e => { console.error(e);
\* store.dispatch(alert(msg)) }) (lines 284-287, 499-502, 533-536, 581-584):
\* the alert is dispatched and the promise of the operation op is fulfilled.
rethrow(R, msg, op) == [R EXCEPT !.rejections = @ \cup {op}]

catch(R, msg, op) == alert(R, msg)

\* store.dispatch(updateThoughtsActionCreator(...)) of the doclog observers:
\* the one id is set to null.
dispatchNull(R, kind, key) ==
  [R EXCEPT !.dispatched =
     [type |-> "updateThoughts", kind |-> kind, key |-> key, value |-> "null",
      local |-> FALSE, remote |-> FALSE, repairCursor |-> TRUE],
            !.state[kind] = @ \ {key}]

\* store.dispatch(updateThoughtsActionCreator(...)) of the entity observers
\* (lines 410-420, 450-460): the one id is set to the entity projected.
dispatchEntity(R, kind, key) ==
  [R EXCEPT !.dispatched =
     [type |-> "updateThoughts", kind |-> kind, key |-> key, value |-> "entity",
      local |-> FALSE, remote |-> FALSE, repairCursor |-> TRUE],
            !.state[kind] = @ \cup {key}]

\* The origin check of the observers (lines 187, 221, 398, 434): a transaction
\* whose origin is the client id of the doc is ignored.
ignoredNever(origin) == FALSE

ignored(origin) == origin = "clientID"

\* onThoughtChange / onLexemeChange (lines 390-403, 426-439), called with the
\* doc as the transaction left it: nothing for an ignored origin and for an
\* empty projection; otherwise the dispatch is put off with setTimeout. near
\* is what the entity projected names: the parent of the thought, the contexts
\* of the lexeme.
onChange(R, kind, key, origin, near) ==
  IF ignored(origin) \/ documentName(kind, key) \notin R.filled THEN R
  ELSE [R EXCEPT !.timeouts = Append(@, [kind |-> kind, key |-> key, near |-> near])]

\* The check of the callback (lines 408, 444-448): the entity, or one of those
\* it names, is in the application state.
loadedAlways(R, d) == TRUE

loaded(R, d) == d.key \in R.state[d.kind] \/ d.near \cap R.state.thought # {}

\* The setTimeout callback of an entity observer (lines 404-421, 440-461).
callback(R, d) == IF loaded(R, d) THEN dispatchEntity(R, d.kind, d.key) ELSE R

\* enqueue
enqueue(R, key) ==
  [R EXCEPT !.updateQueue = @ \cup {key}, !.isPushing = TRUE,
            !.owed = @ (+) SetToBag({key})]

\* dequeue
dequeueKeepsFlag(R, key) ==
  [R EXCEPT !.updateQueue = @ \ {key}, !.owed = @ (-) SetToBag({key})]

dequeue(R, key) ==
  [R EXCEPT !.updateQueue = @ \ {key},
            !.isPushing = IF R.updateQueue \ {key} = {} THEN FALSE ELSE @,
            !.owed = @ (-) SetToBag({key})]

\* new Y.Doc({ guid: documentName }) (lines 470, 510)
create(R, kind, key) == [R EXCEPT !.live = @ (+) SetToBag({documentName(kind, key)})]

\* doc.getMap().observe(onThoughtChange / onLexemeChange) (lines 490, 530)
observe(R, kind, key) == [R EXCEPT !.observers = @ (+) SetToBag({documentName(kind, key)})]

\* docs[key]?.getMap().unobserve(...) (lines 573, 594)
unobserveNothing(R, kind, key) == R

unobserve(R, kind, key) ==
  IF key \in R.docs[kind]
  THEN [R EXCEPT !.observers = @ (-) SetToBag({documentName(kind, key)})]
  ELSE R

\* docs[key]?.destroy() (lines 574, 595)
destroy(R, kind, key) ==
  IF key \in R.docs[kind]
  THEN [R EXCEPT !.live = @ (-) SetToBag({documentName(kind, key)}),
                 !.filled = @ \ {documentName(kind, key)},
                 !.attached = IF CopiesIn(documentName(kind, key), R.observers) > 0
                              THEN @ \cup {documentName(kind, key)} ELSE @]
  ELSE R

\* replicateThought / replicateLexeme up to the await: the doc is created and
\* registered when there is none, with its providers outside test mode; then
\* whenSynced of the registered persistence (if any) is awaited.
replicate(R, kind, key, task) ==
  LET new == key \notin R.docs[kind]
      R1 == IF ~new THEN R
            ELSE LET D == observe(create(R, kind, key), kind, key)
                 IN [D EXCEPT !.docs[kind] = @ \cup {key},
                              !.persistence[kind] = IF providers THEN @ \cup {key} ELSE @,
                              !.databases = IF providers
                                            THEN @ \cup {documentName(kind, key)} ELSE @]
  IN Await(R1, Cont("replicate", kind, key, task, "none", key \in R1.persistence[kind]))

\* doc.transact(...) of updateThought / updateLexeme (lines 290-322, 350-384):
\* the fields of the entity are written to the root map of its doc.
transact(R, kind, key) ==
  onChange([R EXCEPT !.filled = @ \cup {documentName(kind, key)}], kind, key, "clientID", {HOME_TOKEN})

\* updateThought / updateLexeme (all of it runs at once: there is no await).
updateEntity(R, kind, key) ==
  LET R1 == IF key \notin R.docs[kind] THEN replicate(R, kind, key, 0) ELSE R
      R2 == transact(enqueue(R1, key), kind, key)
  IN IF key \in R2.persistence[kind]
     THEN Await(R2, Cont("save", kind, key, 0, "none", TRUE))
     ELSE R2

\* deleteThought / deleteLexeme up to the pending deleteDB request (lines
\* 571-580, 592-601): enqueue, unobserve, destroy, delete the table entries,
\* deleteDB by the document name.
deleteEntityDestroyFirst(R, kind, key, owner) ==
  LET R1 == unobserve(destroy(enqueue(R, key), kind, key), kind, key)
      R2 == [R1 EXCEPT !.docs[kind] = @ \ {key}, !.persistence[kind] = @ \ {key}]
  IN Await(R2, Cont("deleteDB", kind, key, 0, owner, TRUE))

deleteEntity(R, kind, key, owner) ==
  LET R1 == destroy(unobserve(enqueue(R, key), kind, key), kind, key)
      R2 == [R1 EXCEPT !.docs[kind] = @ \ {key}, !.persistence[kind] = @ \ {key}]
  IN Await(R2, Cont("deleteDB", kind, key, 0, owner, TRUE))

\* ------------------------------------------------------------------- mutex

\* tryLock: succeeds iff the mutex is free.
tryLock(l) == ~l

\* mutex.lock as seen by its caller. When tryLock fails, line 60 evaluates
\* tryLock(resolve) a second time, at once, and hands its result (false) to
\* setInterval: no callback is ever registered. A browser evaluates the string
\* "false" on every interval, and the promise stays unsettled; Node throws on a
\* non-function callback, and the promise rejects. Neither resolves.
lock(l) == IF tryLock(l) THEN {"acquired"} ELSE {"suspended", "thrown"}

\* mutex.unlock
unlock == FALSE

\* --------------------------------------------------------------- taskQueue

\* tick's guard (line 91): the call goes on only under the concurrency limit.
TickAdmitsAlways(r) == TRUE

TickAdmits(r) == ~(r >= concurrency)

\* tick up to its await (lines 91-92), called with the mutex free.
\* Gives <<locked', pending'>>.
tickEnter(r) ==
  IF TickAdmits(r) /\ tryLock(unlock)
  THEN <<TRUE, [kind |-> "tick", tasks |-> <<>>]>>
  ELSE <<unlock, NoPending>>

\* add up to its await (lines 113-114): total is raised, then the mutex is asked for.
add(batch) ==
  LET n == Len(batch)
      numbers == [i \in 1..n |-> total + i]
  IN /\ total + n <= MaxTasks
     /\ total' = total + n
     /\ tasks' = tasks \o batch
     /\ status' = status \o [i \in 1..n |-> "submitted"]
     /\ \E o \in lock(locked) :
          IF o = "acquired"
          THEN /\ locked' = TRUE
               /\ pending' = [kind |-> "add", tasks |-> numbers]
               /\ waiters' = waiters
          ELSE /\ waiters' = Append(waiters, [how |-> o, tasks |-> numbers])
               /\ UNCHANGED <<locked, pending>>
     /\ UNCHANGED <<running, complete, queue, timers, steps, ended, stale>>

\* A caller of the queue adds a batch of tasks.
addJobs(n) ==
  /\ add([i \in 1..n |-> <<"job">>])
  /\ UNCHANGED rvars

\* add after its await (lines 115-117): append, unlock, tick().
addResume ==
  /\ pending.kind = "add"
  /\ queue' = queue \o pending.tasks
  /\ status' = [t \in 1..Len(status) |->
                  IF \E i \in 1..Len(pending.tasks) : pending.tasks[i] = t
                  THEN "queued" ELSE status[t]]
  /\ locked' = tickEnter(running)[1]
  /\ pending' = tickEnter(running)[2]
  /\ UNCHANGED <<waiters, total, running, complete, timers, tasks, steps, ended, stale>>
  /\ UNCHANGED rvars

\* The task tick takes from the queue (line 94): pop takes the last element.
popOldest(q) == CHOOSE i \in DOMAIN q : \A j \in DOMAIN q : i <= j

pop(q) == Len(q)

\* A doclog task (lines 198-215) up to its first await. An Update task awaits
\* replicateThought and stays running; a Delete task dispatches, calls
\* deleteThought without awaiting it, and is fulfilled.
runTask(R, t) ==
  IF tasks[t][2] = Update
  THEN replicate(R, "thought", tasks[t][1], t)
  ELSE deleteEntity(dispatchNull(R, "thought", tasks[t][1]), "thought", tasks[t][1], "none")

\* tick after its await (lines 94-99): pop, unlock, and start the task if
\* there is one.
tickResume ==
  /\ pending.kind = "tick"
  /\ locked' = unlock
  /\ pending' = NoPending
  /\ IF queue = <<>>
     THEN UNCHANGED <<queue, running, status, stale, rvars>>
     ELSE LET t == queue[pop(queue)] IN
          /\ queue' = [i \in 1..(Len(queue) - 1) |-> IF i < pop(queue) THEN queue[i] ELSE queue[i + 1]]
          /\ running' = running + 1
          /\ IF tasks[t][1] = "job"
             THEN /\ status' = [status EXCEPT ![t] = "running"]
                  /\ UNCHANGED <<stale, rvars>>
             ELSE /\ status' = [status EXCEPT ![t] = IF tasks[t][2] = Update THEN "running" ELSE "fulfilled"]
                  /\ stale' = IF \E u \in (t + 1)..Len(tasks) : tasks[u][1] = tasks[t][1]
                              THEN stale \cup {t} ELSE stale
                  /\ Store(runTask(Tables, t))
                  /\ UNCHANGED <<pvars, doclog, clearing, calls, events, call>>
  /\ UNCHANGED <<waiters, total, complete, timers, tasks, steps, ended>>

\* The promise of an abstract task settles.
taskSettles(t, ok) ==
  /\ t \in TasksIn("running")
  /\ tasks[t][1] = "job"
  /\ status' = [status EXCEPT ![t] = IF ok THEN "fulfilled" ELSE "rejected"]
  /\ UNCHANGED <<locked, waiters, total, running, complete, queue, pending, timers, tasks, steps, ended, stale>>
  /\ UNCHANGED rvars

\* What onStep is called with (line 102), given complete after its increment.
StepReportStale(c, tot) == <<c - 1, tot>>

StepReport(c, tot) == <<c, tot>>

\* The then callback of a fulfilled task (lines 100-106). A rejected task has
\* no callback: then (line 99) is given no rejection handler.
taskResolved(t) ==
  /\ t \in TasksIn("fulfilled")
  /\ status' = [status EXCEPT ![t] = "resolved"]
  /\ complete' = complete + 1
  /\ running' = running - 1
  /\ steps' = Append(steps, StepReport(complete + 1, total))
  /\ ended' = IF queue = <<>> /\ running - 1 = 0 THEN ended + 1 ELSE ended
  /\ timers' = timers + 1
  /\ UNCHANGED <<locked, waiters, total, queue, pending, tasks, stale>>
  /\ UNCHANGED rvars

\* A setTimeout(tick) callback runs (line 106): no continuation is due, so the
\* mutex is free.
timeoutTick ==
  /\ timers > 0
  /\ ~Microtasks
  /\ timers' = timers - 1
  /\ locked' = tickEnter(running)[1]
  /\ pending' = tickEnter(running)[2]
  /\ UNCHANGED <<waiters, total, running, complete, queue, tasks, status, steps, ended, stale>>
  /\ UNCHANGED rvars

\* ---------------------------------------------- the content of entity docs

\* The holders of a doc: the replicas of the doc of one thought p on the
\* devices A and B and on the server S, and the doc of one lexeme on A.
Devices == {"A", "B"}
Replicas == Devices \cup {"S"}
Holders == Replicas \cup {"L"}

\* A Y.Doc: the scalar entries of its root map as <<key, value>>, the nested
\* Y.Maps that were set at its childrenMap (contexts) key, named after the
\* client that created them, and the entries of these as <<map, key, value>>.
EmptyDoc == [fields |-> {}, maps |-> {}, entries |-> {}]

Names(pairs) == {p[1] : p \in pairs}

Rank(client) == CHOOSE i \in 1..Len(clientOrder) : clientOrder[i] = client

\* thoughtMap.get('childrenMap') (line 297): the nested map at the key. Of
\* several maps set concurrently Yjs keeps one, by the order of the client ids.
get(doc) ==
  IF doc.maps = {} THEN "none"
  ELSE CHOOSE m \in doc.maps : \A n \in doc.maps : Rank(n) <= Rank(m)

\* toJSON of the nested map m.
entriesOf(doc, m) == {<<e[2], e[3]>> : e \in {x \in doc.entries : x[1] = m}}

\* The childrenMap (contexts) branch of the transaction (lines 296-316,
\* 353-378): the nested map is created if there is none, the keys that the
\* entity has no more are deleted, and the keys that the map has not are set.
mergeNestedClearing(doc, nested, client) ==
  LET m == IF get(doc) = "none" THEN client ELSE get(doc)
      before == Names(entriesOf(doc, m))
      kept == {e \in doc.entries : e[1] # m}
      new == {<<m, p[1], p[2]>> : p \in {q \in nested : q[1] \notin before}}
  IN [doc EXCEPT !.maps = @ \cup {m}, !.entries = kept \cup new]

mergeNested(doc, nested, client) ==
  LET m == IF get(doc) = "none" THEN client ELSE get(doc)
      kept == {e \in doc.entries : e[1] # m \/ e[2] \in Names(nested)}
      present == {e[2] : e \in {x \in kept : x[1] = m}}
      new == {<<m, p[1], p[2]>> : p \in {q \in nested : q[1] \notin present}}
  IN [doc EXCEPT !.maps = @ \cup {m}, !.entries = kept \cup new]

\* The other keys (lines 319-321, 380-382): thoughtMap.set(key, value).
setFields(doc, fields) ==
  [doc EXCEPT !.fields = {p \in @ : p[1] \notin Names(fields)} \cup fields]

\* The transaction of updateThought (lines 290-322) on the doc, for the db
\* form of the thought: its scalar fields and its childrenMap as <<key, id>>.
thoughtToYjs(doc, thought, client) ==
  mergeNested(setFields(doc, thought.fields), thought.childrenMap, client)

\* The transaction of updateLexeme (lines 350-384): contexts become the keys
\* of the nested map, with value true.
lexemeToYjs(doc, lexeme, client) ==
  mergeNested(setFields(doc, lexeme.fields), {<<cxid, "true">> : cxid \in lexeme.contexts}, client)

\* getThought (lines 540-551): nothing for an empty root map, else the root
\* map as JSON with childrenMap as a plain object. Given as a set of at most one.
getThought(doc) ==
  IF doc.fields = {} /\ doc.maps = {} THEN {}
  ELSE {[fields |-> doc.fields, childrenMap |-> entriesOf(doc, get(doc))]}

\* getLexeme (lines 554-567): contexts are the keys of the nested map.
getLexeme(doc) ==
  IF doc.fields = {} /\ doc.maps = {} THEN {}
  ELSE {[fields |-> doc.fields, contexts |-> Names(entriesOf(doc, get(doc)))]}

\* What a replica holds after it has received all updates of another one.
\* (The replicas never hold different values of one scalar key.)
applyUpdate(doc, other) ==
  [fields |-> doc.fields \cup other.fields,
   maps |-> doc.maps \cup other.maps,
   entries |-> doc.entries \cup other.entries]

NoWrite == [holder |-> "none", entity |-> {}, projected |-> {}, times |-> 0]

YInit ==
  /\ ydoc = [h \in Holders |-> EmptyDoc]
  /\ clientOrder = <<"A", "B", "S">>
  /\ appState = [d \in Devices |-> {}]
  /\ added = [d \in Devices |-> {}]
  /\ written = NoWrite

QInit ==
  /\ locked = FALSE
  /\ waiters = <<>>
  /\ total = 0
  /\ running = 0
  /\ complete = 0
  /\ queue = <<>>
  /\ pending = NoPending
  /\ timers = 0
  /\ tasks = <<>>
  /\ status = <<>>
  /\ steps = <<>>
  /\ ended = 0
  /\ stale = {}

TInit ==
  /\ providers \in BOOLEAN
  /\ doclog = [thought |-> <<>>, lexeme |-> <<>>]
  /\ docs = [thought |-> {}, lexeme |-> {}]
  /\ persistence = [thought |-> {}, lexeme |-> {}]
  /\ databases = {}
  /\ updateQueue = {}
  /\ isPushing = FALSE
  /\ conts = EmptyBag
  /\ dispatched = [type |-> "none"]
  /\ owed = EmptyBag
  /\ live = EmptyBag
  /\ observers = EmptyBag
  /\ filled = {}
  /\ rootSynced = [resolved |-> FALSE, value |-> "none"]
  /\ attached = {}
  /\ got = "nothing"
  /\ returned = <<>>
  /\ timeouts = <<>>
  /\ rejections = {}
  /\ clearing = [active |-> FALSE, left |-> 0]
  /\ calls = 0
  /\ events = 0
  /\ call = NoCall

\* The application state has the root thought.
AInit == state = [thought |-> {HOME_TOKEN}, lexeme |-> {}]

RInit == TInit /\ YInit /\ AInit

InitQueue == QInit /\ RInit /\ providers = TRUE

NextQueue ==
  \/ \E n \in 1..MaxBatch : addJobs(n)
  \/ addResume
  \/ tickResume
  \/ \E t \in 1..MaxTasks, ok \in BOOLEAN : taskSettles(t, ok)
  \/ \E t \in 1..MaxTasks : taskResolved(t)
  \/ timeoutTick

\* The task queue on its own, with tasks that may resolve or reject.
SpecQueue == InitQueue /\ [][NextQueue]_vars

\* ------------------------------------------------------------- the doclog

undefined == <<>>

\* arr[0] and arr.slice(-1)[0]: undefined on an empty array.
first(arr) == IF arr = <<>> THEN undefined ELSE arr[1]
last(arr) == IF arr = <<>> THEN undefined ELSE arr[Len(arr)]

\* The per-entity logs of an updateThoughts call (lines 644-648, 654-658): one
\* entry per key of the index updates, in their order; upd is the sequence of
\* <<key, value is not null>>.
logs(upd) == [i \in 1..Len(upd) |-> <<upd[i][1], IF upd[i][2] THEN Update ELSE Delete>>]

\* _.isEqual of a log entry and the tail of the doclog array (lines 649, 659).
isEqualIdOnly(a, b) == (a = undefined /\ b = undefined) \/ (a # undefined /\ b # undefined /\ a[1] = b[1])

isEqual(a, b) == a = b

\* Lines 649-652, 659-662: the first log is shifted out if it equals the tail.
trim(entries, arr) ==
  IF isEqual(first(entries), last(arr)) /\ entries # <<>> THEN Tail(entries) ELSE entries

\* Y.Array push (lines 665, 667)
pushReplacing(arr, entries) == IF arr = <<>> THEN entries ELSE SubSeq(arr, 1, Len(arr) - 1) \o entries

push(arr, entries) == arr \o entries

\* The array after a transaction of another client (lines 187-189): what the
\* observers get as e.changes.delta is the content it inserted, and the log
\* being append-only, it is inserted at the end.
inserted(arr, delta) == arr \o delta

Reverse(s) == [i \in 1..Len(s) |-> s[Len(s) + 1 - i]]

\* The observers' walk (lines 193-196, 227-230): entries whose id was
\* traversed already are skipped.
traverseAll(deltas, idsTraversed) == deltas

RECURSIVE traverse(_, _)
traverse(deltas, idsTraversed) ==
  IF deltas = <<>> THEN <<>>
  ELSE IF Head(deltas)[1] \in idsTraversed
       THEN traverse(Tail(deltas), idsTraversed)
       ELSE <<Head(deltas)>> \o traverse(Tail(deltas), idsTraversed \cup {Head(deltas)[1]})

\* What an observer services of a delta (lines 189-196, 223-230, 218): the
\* inserted entries from recent to old, one per id.
survivorsOldestFirst(delta) == traverse(delta, {})

survivors(delta) == traverse(Reverse(delta), {})

\* --------------------------------------------------------- the replicator

\* updateThought / updateLexeme for every non-null value, in order (lines 633-639).
RECURSIVE updateAll(_, _, _)
updateAll(R, kind, upd) ==
  IF upd = <<>> THEN R
  ELSE updateAll(IF Head(upd)[2] THEN updateEntity(R, kind, Head(upd)[1]) ELSE R,
                 kind, Tail(upd))

\* deleteThought / deleteLexeme for every null value, in order (lines 670-677).
RECURSIVE deleteAll(_, _, _, _)
deleteAll(R, kind, upd, owner) ==
  IF upd = <<>> THEN R
  ELSE deleteAll(IF Head(upd)[2] THEN R ELSE deleteEntity(R, kind, Head(upd)[1], owner),
                 kind, Tail(upd), owner)

\* The tables after updateThoughts (lines 633-639, 670-678); owner names the
\* call that waits for the delete promises, if it is followed.
batch(R, tUpd, lUpd, owner) ==
  deleteAll(deleteAll(updateAll(updateAll(R, "thought", tUpd), "lexeme", lUpd),
                      "thought", tUpd, owner),
            "lexeme", lUpd, owner)

\* The name of the n-th call of updateThoughts.
Call(n) == "updateThoughts" \o ToString(n)

\* The members of Promise.all (lines 673-678) that are unsettled when
\* updateThoughts returns: the promises of deleteThought / deleteLexeme. The
\* done promises of updateThought / updateLexeme were resolved by
\* afterTransaction, inside transact (lines 281, 290-324).
membersNone(tUpd, lUpd) == Len(<<>>)

members(tUpd, lUpd) ==
  Cardinality({i \in DOMAIN tUpd : ~tUpd[i][2]}) + Cardinality({i \in DOMAIN lUpd : ~lUpd[i][2]})

\* Promise.all of n unsettled members.
all(R, n) == [R EXCEPT !.returned = Append(@, [left |-> n, resolved |-> n = 0])]

\* A member of the Promise.all of the call named owner is fulfilled.
settle(R, owner) ==
  [R EXCEPT !.returned =
     [n \in DOMAIN @ |->
        IF Call(n) = owner
        THEN [left |-> @[n].left - 1, resolved |-> @[n].left - 1 = 0]
        ELSE @[n]]]

\* The doclog after updateThoughts (lines 644-668).
append(log, tUpd, lUpd) ==
  [thought |-> push(log.thought, trim(logs(tUpd), log.thought)),
   lexeme |-> push(log.lexeme, trim(logs(lUpd), log.lexeme))]

\* thoughtLog.observe (lines 186-218) for a transaction of the given origin
\* that inserted delta: unless the origin is ignored, the entries it services
\* are added to the replication queue.
observeThoughtLog(origin, delta) ==
  IF ignored(origin) THEN UNCHANGED qvars ELSE add(survivors(delta))

\* updateThoughts, called by the application.
updateThoughts(tUpd, lUpd) ==
  /\ ~Microtasks
  /\ calls < MaxCalls
  /\ Len(thoughtLog) + Len(tUpd) <= MaxLog
  /\ Len(lexemeLog) + Len(lUpd) <= MaxLog
  /\ calls' = calls + 1
  /\ doclog' = append(doclog, tUpd, lUpd)
  /\ Store(batch(Tables, tUpd, lUpd, "none"))
  /\ observeThoughtLog("clientID", trim(logs(tUpd), thoughtLog))
  /\ UNCHANGED <<pvars, clearing, events, call>>

\* initialState(): the index updates that clear replays (the root thought, no lexeme).
initialThoughtIndex == << <<HOME_TOKEN, TRUE>> >>
initialLexemeIndex == <<>>

\* Sequence of the elements of a finite set, in some order.
RECURSIVE SeqOf(_)
SeqOf(S) == IF S = {} THEN <<>> ELSE LET x == CHOOSE y \in S : TRUE IN <<x>> \o SeqOf(S \ {x})

\* clear up to its await (lines 683-686): every registered doc is deleted.
clear ==
  /\ ~Microtasks
  /\ calls < MaxCalls
  /\ ~clearing.active
  /\ calls' = calls + 1
  /\ LET ts == [i \in 1..Cardinality(thoughtDocs) |-> <<SeqOf(thoughtDocs)[i], FALSE>>]
         ls == [i \in 1..Cardinality(lexemeDocs) |-> <<SeqOf(lexemeDocs)[i], FALSE>>]
         R == deleteAll(deleteAll(Tables, "thought", ts, "clear"), "lexeme", ls, "clear")
     IN /\ clearing' = [active |-> TRUE, left |-> Len(ts) + Len(ls)]
        /\ Store(IF Len(ts) + Len(ls) = 0
                 THEN Await(R, Cont("clear", "thought", HOME_TOKEN, 0, "clear", FALSE))
                 ELSE R)
  /\ UNCHANGED <<qvars, pvars, doclog, events, call>>

\* clear after its await (lines 689-695): updateThoughts with the initial state.
clearResume ==
  /\ \E c \in BagToSet(conts) : c.op = "clear"
  /\ Len(thoughtLog) + Len(initialThoughtIndex) <= MaxLog
  /\ clearing' = [active |-> FALSE, left |-> 0]
  /\ doclog' = append(doclog, initialThoughtIndex, initialLexemeIndex)
  /\ Store(batch([Tables EXCEPT !.conts = @ (-) SetToBag({Cont("clear", "thought", HOME_TOKEN, 0, "clear", FALSE)})],
                 initialThoughtIndex, initialLexemeIndex, "none"))
  /\ UNCHANGED <<qvars, pvars, calls, events, call>>

\* getThought(thoughtDocs[id]) / getLexeme(lexemeDocs[key]) (lines 701, 711):
\* the functions call getMap on their argument (lines 541, 555), which throws
\* a TypeError when the table has no doc of the id.
getEntity(R, kind, key) ==
  IF key \notin R.docs[kind] THEN "TypeError"
  ELSE IF documentName(kind, key) \in R.filled THEN "entity" ELSE "undefined"

\* The await of a getThoughtById / getLexemeById call has ended (lines 701, 711).
return(R, c) ==
  IF c.owner = "get" THEN [R EXCEPT !.got = getEntity(R, c.kind, c.key)] ELSE R

\* getThoughtById / getLexemeById up to the await of replicate (lines 700, 710).
getById(kind, key) ==
  /\ ~Microtasks
  /\ calls < MaxCalls
  /\ calls' = calls + 1
  /\ LET R == replicate(Tables, kind, key, 0)
         c == Cont("replicate", kind, key, 0, "none", key \in R.persistence[kind])
     IN Store(Await(Without(R, c), [c EXCEPT !.owner = "get"]))
  /\ UNCHANGED <<qvars, pvars, doclog, clearing, events, call>>

\* thoughtLog.observe (lines 186-219): a remote transaction inserts delta.
thoughtLogObserve(delta) ==
  /\ ~Microtasks
  /\ Len(thoughtLog) + Len(delta) <= MaxLog
  /\ events' = events + 1
  /\ doclog' = [doclog EXCEPT !.thought = inserted(@, delta)]
  /\ observeThoughtLog("remote", delta)
  /\ UNCHANGED <<pvars, tvars, clearing, calls, call>>

\* The body of lexemeLog.observe's forEach (lines 228-247), entry by entry.
RECURSIVE serviceLexemes(_, _)
serviceLexemes(R, entries) ==
  IF entries = <<>> THEN R
  ELSE serviceLexemes(
         IF Head(entries)[2] = Update
         THEN replicate(R, "lexeme", Head(entries)[1], 0)
         ELSE deleteEntity(dispatchNull(R, "lexeme", Head(entries)[1]), "lexeme", Head(entries)[1], "none"),
         Tail(entries))

\* lexemeLog.observe (lines 220-248): a remote transaction inserts delta.
lexemeLogObserve(delta) ==
  /\ ~Microtasks
  /\ Len(lexemeLog) + Len(delta) <= MaxLog
  /\ events' = events + 1
  /\ doclog' = [doclog EXCEPT !.lexeme = inserted(@, delta)]
  /\ Store(serviceLexemes(Tables, survivors(delta)))
  /\ UNCHANGED <<qvars, pvars, clearing, calls, call>>

\* thoughtDocs[HOME_TOKEN]?.getMap().toJSON() (line 496): undefined without a
\* registered doc, {} for an empty root map.
toJSON(R) ==
  IF HOME_TOKEN \notin R.docs.thought THEN "undefined"
  ELSE IF documentName("thought", HOME_TOKEN) \in R.filled THEN "root" ELSE "{}"

\* resolveRootSynced (lines 251-265): the emitter calls the resolve function of
\* the promise, which settles the promise the first time only.
resolveAgain(R, value) == [R EXCEPT !.rootSynced = [resolved |-> TRUE, value |-> value]]

resolveRootSynced(R, value) ==
  IF R.rootSynced.resolved THEN R
  ELSE [R EXCEPT !.rootSynced = [resolved |-> TRUE, value |-> value]]

\* The then callback of replicateThought's whenSynced (lines 494-498).
synced(R, c) ==
  IF c.kind = "thought" /\ c.key = HOME_TOKEN /\ c.io
  THEN resolveRootSynced(R, toJSON(R))
  ELSE R

\* whenSynced of updateThought / updateLexeme settles (lines 283-288, 343-348).
saved(c, ok) ==
  /\ c \in BagToSet(conts) /\ c.op = "save"
  /\ ~Microtasks
  /\ Store(dequeue(IF ok THEN Without(Tables, c)
                   ELSE catch(Without(Tables, c), "Error saving thought", "update"), c.key))
  /\ UNCHANGED <<qvars, pvars, doclog, clearing, calls, events, call>>

\* The await of replicateThought / replicateLexeme ends (lines 493-502, 533-536);
\* a doclog Update task is fulfilled with it (line 200).
replicated(c, ok) ==
  /\ c \in BagToSet(conts) /\ c.op = "replicate"
  /\ IF c.io THEN ~Microtasks ELSE ok
  /\ Store(return(IF ok THEN synced(Without(Tables, c), c)
                  ELSE catch(Without(Tables, c), "Error loading thought", "replicate"), c))
  /\ status' = IF c.task > 0 THEN [status EXCEPT ![c.task] = "fulfilled"] ELSE status
  /\ UNCHANGED <<locked, waiters, total, running, complete, queue, pending, timers, tasks, steps, ended, stale>>
  /\ UNCHANGED <<pvars, doclog, clearing, calls, events, call>>

\* indexedDB.deleteDatabase settles (lines 149-155), then catch and finally of
\* deleteThought / deleteLexeme (lines 581-587, 602-608).
deleted(c, ok) ==
  /\ c \in BagToSet(conts) /\ c.op = "deleteDB"
  /\ ~Microtasks
  /\ LET R1 == IF ok
               THEN [Without(Tables, c) EXCEPT !.databases = @ \ {documentName(c.kind, c.key)}]
               ELSE catch(Without(Tables, c), "Error deleting thought", "delete")
         R2 == settle(dequeue(R1, c.key), c.owner)
     IN IF c.owner = "clear"
        THEN /\ clearing' = [clearing EXCEPT !.left = @ - 1]
             /\ Store(IF clearing.left = 1
                      THEN Await(R2, Cont("clear", "thought", HOME_TOKEN, 0, "clear", FALSE))
                      ELSE R2)
        ELSE /\ clearing' = clearing
             /\ Store(R2)
  /\ UNCHANGED <<qvars, pvars, doclog, calls, events, call>>

\* ---------------------------------------------------------------- inputs

\* Index updates: sequences of <<key, value is not null>> with distinct keys.
Updates(keys, n) ==
  UNION {{u \in [1..k -> keys \X BOOLEAN] :
            \A i, j \in 1..k : i # j => u[i][1] # u[j][1]} : k \in 0..n}

\* Remote deltas: non-empty sequences of entries <<key, action>>.
Deltas(keys, n) == UNION {[1..k -> keys \X {Delete, Update}] : k \in 1..n}

Waiting == BagToSet(conts)

\* No more input once MaxCalls calls and remote transactions were made.
MoreInput == calls + events < MaxCalls

Init == QInit /\ RInit

Next ==
  \/ addResume
  \/ tickResume
  \/ \E t \in 1..MaxTasks : taskResolved(t)
  \/ timeoutTick
  \/ \E tUpd \in Updates({"x"}, 1), lUpd \in Updates(LexemeKeys, 1) :
       MoreInput /\ updateThoughts(tUpd, lUpd)
  \/ MoreInput /\ clear
  \/ clearResume
  \/ \E kind \in Kinds : \E key \in KeysOf(kind) : MoreInput /\ getById(kind, key)
  \/ \E delta \in Deltas({"x"}, 1) : MoreInput /\ thoughtLogObserve(delta)
  \/ \E delta \in Deltas(LexemeKeys, 1) : MoreInput /\ lexemeLogObserve(delta)
  \/ \E c \in Waiting, ok \in BOOLEAN : saved(c, ok)
  \/ \E c \in Waiting, ok \in BOOLEAN : replicated(c, ok)
  \/ \E c \in Waiting, ok \in BOOLEAN : deleted(c, ok)

\* The data provider: local calls, remote doclog deltas, and their continuations.
Spec == Init /\ [][Next]_vars

NextDelete ==
  \/ addResume
  \/ tickResume
  \/ \E t \in 1..MaxTasks : taskResolved(t)
  \/ timeoutTick
  \/ \E tUpd \in Updates({"x"}, 1), lUpd \in Updates(LexemeKeys, 1) :
       MoreInput /\ updateThoughts(tUpd, lUpd)
  \/ MoreInput /\ clear
  \/ clearResume
  \/ \E delta \in Deltas({"x"}, 1) : MoreInput /\ thoughtLogObserve(delta)
  \/ \E delta \in Deltas(LexemeKeys, 1) : MoreInput /\ lexemeLogObserve(delta)
  \/ \E c \in Waiting : saved(c, TRUE)
  \/ \E c \in Waiting : replicated(c, TRUE)
  \/ \E c \in Waiting, ok \in BOOLEAN : deleted(c, ok)

\* The writers and deleters of the data provider: local updates and deletes,
\* clear, and remote doclog deltas; the deleteDB requests may fail.
SpecDelete == Init /\ [][NextDelete]_vars

\* updateThoughts, with its arguments and the doclog it finds kept in call.
updateThoughtsCall(tUpd, lUpd) ==
  /\ calls < MaxCalls
  /\ ~Microtasks
  /\ Len(thoughtLog) + Len(tUpd) <= MaxLog
  /\ Len(lexemeLog) + Len(lUpd) <= MaxLog
  /\ calls' = calls + 1
  /\ call' = [n |-> calls + 1, thoughtIndexUpdates |-> tUpd, lexemeIndexUpdates |-> lUpd,
              doclog |-> doclog]
  /\ doclog' = append(doclog, tUpd, lUpd)
  /\ Store(all(batch(Tables, tUpd, lUpd, Call(calls + 1)), members(tUpd, lUpd)))
  /\ UNCHANGED <<qvars, pvars, clearing, events>>

NextLog ==
  \/ \E tUpd \in Updates(ThoughtIds, 2), lUpd \in Updates(LexemeKeys, 1) :
       updateThoughtsCall(tUpd, lUpd)
  \/ \E c \in Waiting : replicated(c, TRUE)

\* Batches of updateThoughts of any shape, one after the other, while the
\* saves and deleteDB requests they start are still pending.
SpecLog == Init /\ [][NextLog]_vars

NextBatch ==
  \/ \E tUpd \in Updates({HOME_TOKEN}, 1), lUpd \in Updates(LexemeKeys, 1) :
       updateThoughtsCall(tUpd, lUpd)
  \/ \E c \in Waiting : saved(c, TRUE)
  \/ \E c \in Waiting : replicated(c, TRUE)
  \/ \E c \in Waiting, ok \in BOOLEAN : deleted(c, ok)

\* Calls of updateThoughts on the root and a lexeme, followed to the end of
\* the requests they start and to the settling of the promises they return;
\* the deleteDB requests may fail.
SpecBatch == Init /\ [][NextBatch]_vars

InitRemote == QInit /\ RInit /\ providers = TRUE

\* The remote transactions: an update of the root, up to two entries on x, or
\* an update of the root between two entries on x.
RemoteDeltas ==
  {<< <<HOME_TOKEN, Update>> >>, << <<"x", Update>>, <<HOME_TOKEN, Update>>, <<"x", Delete>> >>}
    \cup Deltas({"x"}, 2)

NextRemote ==
  \/ addResume
  \/ tickResume
  \/ \E t \in 1..MaxTasks : taskResolved(t)
  \/ timeoutTick
  \/ \E delta \in RemoteDeltas : thoughtLogObserve(delta)
  \/ \E c \in Waiting : replicated(c, TRUE)
  \/ \E c \in Waiting : deleted(c, TRUE)

\* Remote transactions on thoughtLog and the replication queue they feed, with
\* IndexedDB requests that succeed.
SpecRemote == InitRemote /\ [][NextRemote]_vars

\* ------------------------------------------------------ entity observers

\* What a remote transaction leaves in the doc of an entity: an empty root
\* map, or an entity that names its parent (its contexts): none, the root, x.
Contents == {[empty |-> TRUE, near |-> {}]} \cup [empty : {FALSE}, near : {{}, {HOME_TOKEN}, {"x"}}]

\* A transaction of a provider (IndexedDB or websocket) on the registered doc
\* of an entity: the doc gets the content, and the observer of its root map
\* is called (lines 490, 530).
entityObserve(kind, key, content) ==
  /\ ~Microtasks
  /\ key \in persistence[kind]
  /\ events' = events + 1
  /\ LET name == documentName(kind, key)
         R == [Tables EXCEPT !.filled = IF content.empty THEN @ \ {name} ELSE @ \cup {name}]
     IN Store(onChange(R, kind, key, "provider", content.near))
  /\ UNCHANGED <<qvars, pvars, doclog, clearing, calls, call>>

\* The oldest setTimeout callback of the entity observers runs.
timeout ==
  /\ timeouts # <<>>
  /\ ~Microtasks
  /\ Store(callback([Tables EXCEPT !.timeouts = Tail(@)], Head(timeouts)))
  /\ UNCHANGED <<qvars, pvars, doclog, clearing, calls, events, call>>

\* Remote transactions and calls that are followed past this number are not made.
MaxEvents == 3

\* The application has the root, and has x or has it not.
InitObserver ==
  /\ QInit /\ TInit /\ YInit /\ providers = TRUE
  /\ state \in [thought : {{HOME_TOKEN}, {HOME_TOKEN, "x"}, {}}, lexeme : {{}}]

NextObserver ==
  \/ addResume
  \/ tickResume
  \/ \E t \in 1..MaxTasks : taskResolved(t)
  \/ timeoutTick
  \/ \E tUpd \in Updates({"x"}, 1) :
       /\ calls + events < MaxEvents
       /\ \A i \in DOMAIN tUpd : tUpd[i][2] <=> tUpd[i][1] \in state.thought
       /\ updateThoughts(tUpd, <<>>)
  \/ \E delta \in Deltas({"x"}, 1) : calls + events < MaxEvents /\ thoughtLogObserve(delta)
  \/ \E delta \in Deltas(LexemeKeys, 1) : calls + events < MaxEvents /\ lexemeLogObserve(delta)
  \/ \E kind \in Kinds, content \in Contents :
       calls + events < MaxEvents /\ entityObserve(kind, "x", content)
  \/ timeout
  \/ \E c \in Waiting : saved(c, TRUE)
  \/ \E c \in Waiting : replicated(c, TRUE)
  \/ \E c \in Waiting : deleted(c, TRUE)

\* The entity observers and their deferred dispatches, next to local updates
\* and to the remote doclog transactions that replicate and delete.
SpecObserver == InitObserver /\ [][NextObserver]_vars

\* --------------------------------------------------- writes to an entity doc

\* The db form of the thoughts given to updateThoughts: a scalar field and a
\* childrenMap from child keys to child ids: the child c1 under its id, and a
\* meta attribute under its value, which is the thought m1 or the thought m2.
ChildrenMaps ==
  {cm \in SUBSET {<<"c1", "c1">>, <<"=pin", "m1">>, <<"=pin", "m2">>} : \A p, q \in cm : p[1] = q[1] => p = q}
Thoughts == [fields : {{<<"value", v>>} : v \in {"a", "b"}}, childrenMap : ChildrenMaps]
Lexemes == [fields : {{<<"created", v>>} : v \in {"a", "b"}}, contexts : SUBSET {"c1", "c2"}]

\* What the replicator's tables and the queue hold, none of it written here.
ovars == <<qvars, providers, doclog, tvars, clearing, calls, events, call>>

toYjs(doc, holder, entity) ==
  IF holder = "L" THEN lexemeToYjs(doc, entity, "A") ELSE thoughtToYjs(doc, entity, holder)

projection(doc, holder) == IF holder = "L" THEN getLexeme(doc) ELSE getThought(doc)

\* updateThought on device A (lines 290-322): the transaction on the doc of
\* the thought, whatever the doc held.
updateThoughtDoc(thought) ==
  /\ ydoc' = [ydoc EXCEPT !["A"] = toYjs(@, "A", thought)]
  /\ written' = [holder |-> "A", entity |-> thought, projected |-> projection(ydoc'["A"], "A"), times |-> 1]
  /\ UNCHANGED <<clientOrder, appState, added, ovars>>

\* updateLexeme on device A (lines 350-384).
updateLexemeDoc(lexeme) ==
  /\ ydoc' = [ydoc EXCEPT !["L"] = toYjs(@, "L", lexeme)]
  /\ written' = [holder |-> "L", entity |-> lexeme, projected |-> projection(ydoc'["L"], "L"), times |-> 1]
  /\ UNCHANGED <<clientOrder, appState, added, ovars>>

\* updateThoughts is given the same input once more: the same transaction on
\* the doc as it is now.
updateAgain ==
  /\ written.times = 1
  /\ ydoc' = [ydoc EXCEPT ![written.holder] = toYjs(@, written.holder, written.entity)]
  /\ written' = [written EXCEPT !.times = 2]
  /\ UNCHANGED <<clientOrder, appState, added, ovars>>

InitCodec == QInit /\ RInit /\ providers = TRUE

NextCodec ==
  \/ \E thought \in Thoughts : updateThoughtDoc(thought)
  \/ \E lexeme \in Lexemes : updateLexemeDoc(lexeme)
  \/ updateAgain

\* The transactions of updateThought and updateLexeme on one doc each.
SpecCodec == InitCodec /\ [][NextCodec]_vars

\* ----------------------------------------------- two devices and the server

\* The doc of p as the server holds it: one child c0, in the nested map that
\* the first writer made.
P0 == [fields |-> {<<"value", "p">>}, maps |-> {"S"}, entries |-> {<<"S", "c0", "c0">>}]

ClientOrders ==
  {o \in [1..Cardinality(Replicas) -> Replicas] : \A i, j \in DOMAIN o : o[i] = o[j] => i = j}

\* Device A has the doc of p in sync. Device B has it in sync as well, or has
\* made the doc and not finished its first sync (lines 470, 283-290: the
\* transaction does not wait for whenSynced).
InitMerge ==
  /\ QInit /\ TInit /\ AInit /\ providers = TRUE
  /\ \E b \in {P0, EmptyDoc} :
       ydoc = [h \in Holders |-> IF h = "L" THEN EmptyDoc ELSE IF h = "B" THEN b ELSE P0]
  /\ clientOrder \in ClientOrders
  /\ appState = [d \in Devices |-> {<<"c0", "c0">>}]
  /\ added = [d \in Devices |-> {}]
  /\ written = NoWrite

childOf(d) == IF d = "A" THEN "c1" ELSE "c2"

\* The children the replica has in any of its nested maps.
seen(doc) == {e[3] : e \in doc.entries}

\* The device adds its child to p, not having received the child of the other
\* device: the application state gets the child and updateThought writes p
\* with the childrenMap of the application state.
addChild(d) ==
  /\ added[d] = {}
  /\ seen(ydoc[d]) \subseteq {"c0"}
  /\ added' = [added EXCEPT ![d] = {childOf(d)}]
  /\ appState' = [appState EXCEPT ![d] = @ \cup {<<childOf(d), childOf(d)>>}]
  /\ ydoc' = [ydoc EXCEPT ![d] = thoughtToYjs(@, [fields |-> {<<"value", "p">>}, childrenMap |-> appState'[d]], d)]
  /\ UNCHANGED <<clientOrder, written, ovars>>

\* The websocket provider of the device sends what the server has not.
send(d) ==
  /\ applyUpdate(ydoc["S"], ydoc[d]) # ydoc["S"]
  /\ ydoc' = [ydoc EXCEPT !["S"] = applyUpdate(@, ydoc[d])]
  /\ UNCHANGED <<clientOrder, appState, added, written, ovars>>

\* The device receives what it has not. When the root map has changed, its
\* observer onThoughtChange (lines 390-423, 490) gives the thought the doc
\* projects to to the application state.
receive(d) ==
  /\ applyUpdate(ydoc[d], ydoc["S"]) # ydoc[d]
  /\ ydoc' = [ydoc EXCEPT ![d] = applyUpdate(@, ydoc["S"])]
  /\ appState' = [appState EXCEPT ![d] =
                    IF ydoc'[d].fields # ydoc[d].fields \/ ydoc'[d].maps # ydoc[d].maps
                    THEN entriesOf(ydoc'[d], get(ydoc'[d]))
                    ELSE @]
  /\ UNCHANGED <<clientOrder, added, written, ovars>>

NextMerge ==
  \/ \E d \in Devices : addChild(d)
  \/ \E d \in Devices : send(d)
  \/ \E d \in Devices : receive(d)

\* Two devices that add a child each to one thought and exchange updates
\* through the server.
SpecMerge == InitMerge /\ [][NextMerge]_vars

\* ------------------------------------------------- claims on the task queue

\* Nothing is left to run: no continuation, no timer, no task in flight.
Quiescent ==
  /\ pending.kind = "none"
  /\ timers = 0
  /\ TasksIn("running") = {}
  /\ TasksIn("fulfilled") = {}

\* C1: the tasks that were started and whose completion callback has not run
\* (in flight, or failed) are never more than concurrency, and neither is the
\* queue's own running counter.
C1_ConcurrencyBound ==
  /\ Cardinality(TasksIn("running") \cup TasksIn("fulfilled") \cup TasksIn("rejected")) <= concurrency
  /\ running <= concurrency

\* The limit binds: concurrency tasks in flight while another one waits.
C1_Witness == Cardinality(TasksIn("running")) = concurrency /\ queue # <<>>

\* C2: when no started task fails, every task passed to add has run to
\* completion once nothing is left to run (whatever the interleaving of add
\* calls with the holder of the mutex).
C2_EveryTaskRuns ==
  (Quiescent /\ TasksIn("rejected") = {}) =>
     \A t \in 1..Len(status) : status[t] = "resolved"

\* C3: onStep is called once per completion, with current = 1, 2, ... and
\* current <= total; when all N submitted tasks have resolved it was called N
\* times and the last call reported complete = total = N.
C3_StepPerCompletion ==
  /\ Len(steps) = Cardinality(TasksIn("resolved"))
  /\ \A i \in 1..Len(steps) : steps[i][1] = i /\ steps[i][1] <= steps[i][2]
  /\ (total > 0 /\ \A t \in 1..Len(status) : status[t] = "resolved") =>
        /\ Len(steps) = total
        /\ steps[Len(steps)] = <<total, total>>

\* All tasks of several add calls have resolved.
C3_Witness ==
  /\ total = MaxTasks
  /\ \A t \in 1..Len(status) : status[t] = "resolved"
  /\ steps[Len(steps)] = <<MaxTasks, MaxTasks>>

\* C4: a failed task gives its slot back (running counts only the tasks in
\* flight) and the tasks still queued are run: none is left in the queue once
\* nothing is left to run.
C4_FailedTaskReleasesSlot ==
  /\ running = Cardinality(TasksIn("running") \cup TasksIn("fulfilled"))
  /\ Quiescent => queue = <<>>

\* C5: a lock() call made while the mutex was held is granted after the holder
\* unlocks: once the mutex is free and nothing is left to run, no lock() call is
\* still waiting.
C5_LockGrantedAfterUnlock ==
  (~locked /\ Quiescent) => waiters = <<>>

\* Without failures the queue drains (what C4 asks for, in the case it holds).
QueueDrainsWithoutFailure ==
  (Quiescent /\ TasksIn("rejected") = {}) => queue = <<>>

\* ------------------------------------------------------ claims on the doclog

\* s is a prefix of t.
IsPrefix(s, t) == Len(s) <= Len(t) /\ \A i \in 1..Len(s) : t[i] = s[i]

\* The action the doclog is to hold for an index update <<key, value is not null>>.
ActionOf(u) == IF u[2] THEN Update ELSE Delete

\* after is before with one entry per index update appended, in order, the
\* first one left out iff it equals the tail of before in id and action.
AppendedPerId(before, after, upd) ==
  LET n == Len(upd)
      omitted == /\ n > 0
                 /\ before # <<>>
                 /\ before[Len(before)][1] = upd[1][1]
                 /\ before[Len(before)][2] = ActionOf(upd[1])
      k == IF omitted THEN 1 ELSE 0
  IN /\ Len(after) = Len(before) + n - k
     /\ IsPrefix(before, after)
     /\ \A i \in (k + 1)..n : after[Len(before) + i - k] = <<upd[i][1], ActionOf(upd[i])>>

\* C6: after an updateThoughts call, thoughtLog (resp. lexemeLog) is what it
\* was before the call plus one (id, action) entry per id of the input, in
\* input order, Update for a value and Delete for null, the first entry left
\* out iff it equals the previous tail in id and action; an empty input
\* appends nothing.
C6_OneEntryPerId ==
  call.n > 0 =>
    /\ AppendedPerId(call.doclog.thought, thoughtLog, call.thoughtIndexUpdates)
    /\ AppendedPerId(call.doclog.lexeme, lexemeLog, call.lexemeIndexUpdates)
    /\ call.thoughtIndexUpdates = <<>> => thoughtLog = call.doclog.thought
    /\ call.lexemeIndexUpdates = <<>> => lexemeLog = call.doclog.lexeme

\* A call with two ids whose first entry was left out, the second appended.
C6_Witness ==
  /\ call.n > 0
  /\ Len(call.thoughtIndexUpdates) = 2
  /\ call.doclog.thought # <<>>
  /\ Len(thoughtLog) = Len(call.doclog.thought) + 1

\* C7: in every step, of whatever operation, the previous content of
\* thoughtLog and of lexemeLog is a prefix of its next content.
C7_AppendOnly ==
  [][IsPrefix(thoughtLog, thoughtLog') /\ IsPrefix(lexemeLog, lexemeLog')]_vars

\* Both logs have grown, by local calls and by remote transactions.
C7_Witness ==
  /\ calls > 0
  /\ events > 0
  /\ Len(thoughtLog) + Len(lexemeLog) >= 2

\* ------------------------------------------- claims on remote transactions

\* The replication queue has drained and no request is pending.
Drained == Quiescent /\ queue = <<>> /\ conts = EmptyBag /\ total > 0

\* The newest entry of log for id is a Delete.
NewestIsDelete(log, id) ==
  \E i \in 1..Len(log) :
    /\ log[i] = <<id, Delete>>
    /\ \A j \in (i + 1)..Len(log) : log[j][1] # id

\* C8: no task of an older action of an id is started once a task of a newer
\* action of that id was submitted, and when the replication queue has drained
\* no doc is registered for an id whose newest action is Delete.
C8_OnlyNewestServiced ==
  /\ stale = {}
  /\ Drained => \A id \in ThoughtIds : NewestIsDelete(thoughtLog, id) => id \notin thoughtDocs

\* The null update that a Delete task dispatches for x.
NullUpdateOfX ==
  [type |-> "updateThoughts", kind |-> "thought", key |-> "x", value |-> "null",
   local |-> FALSE, remote |-> FALSE, repairCursor |-> TRUE]

\* The remote transaction [(x, Update), (x, Delete)] is observed in this step.
UpdateThenDeleteArrives ==
  /\ events' = events + 1
  /\ thoughtLog' = thoughtLog \o << <<"x", Update>>, <<"x", Delete>> >>

\* Task t, a Delete of x, is started in this step.
DeleteOfXStarts(t) ==
  /\ t \in TasksIn("queued")
  /\ tasks[t] = <<"x", Delete>>
  /\ status'[t] # "queued"

\* The deleteDB request c of thought x completes in this step.
DropOfXCompletes(c) ==
  /\ c.op = "deleteDB" /\ c.kind = "thought" /\ c.key = "x"
  /\ conts' = conts (-) SetToBag({c})
  /\ conts # conts'

\* C9: the remote transaction [(x, Update), (x, Delete)] adds exactly one
\* task, the Delete of x; when that task runs it dispatches the null update of
\* x (local, remote false; repairCursor true) and calls deleteThought(x), which
\* leaves no doc registered for x and asks for the database to be deleted; when
\* that request completes the database of x's document name is gone.
C9_Step ==
  /\ UpdateThenDeleteArrives =>
       /\ Len(tasks') = Len(tasks) + 1
       /\ tasks'[Len(tasks')] = <<"x", Delete>>
  /\ \A t \in 1..Len(tasks) : DeleteOfXStarts(t) =>
       /\ dispatched' = NullUpdateOfX
       /\ "x" \notin thoughtDocs'
       /\ "x" \notin persistence'.thought
       /\ "x" \in updateQueue'
       /\ \E c \in BagToSet(conts') :
            /\ c.op = "deleteDB" /\ c.kind = "thought" /\ c.key = "x"
            /\ CopiesIn(c, conts') = CopiesIn(c, conts) + 1
  /\ \A c \in BagToSet(conts) : DropOfXCompletes(c) =>
       documentName("thought", "x") \notin databases'

C9_UpdateThenDeleteIsDelete == [][C9_Step]_vars

\* x was replicated, then [(x, Update), (x, Delete)] arrived, and its one task
\* has run: no doc and no database of x are left.
C9_Witness ==
  /\ thoughtLog = << <<"x", Update>>, <<"x", Update>>, <<"x", Delete>> >>
  /\ tasks = << <<"x", Update>>, <<"x", Delete>> >>
  /\ \A t \in 1..Len(status) : status[t] = "resolved"
  /\ conts = EmptyBag
  /\ dispatched = NullUpdateOfX
  /\ "x" \notin thoughtDocs
  /\ documentName("thought", "x") \notin databases

\* ---------------------------------------------------- claims on isPushing

\* C10: in every reachable state isPushing, as last given to pushStore, is
\* true iff updateQueue is not empty.
C10_PushingIffQueued == isPushing <=> updateQueue # {}

\* Keys were enqueued by a local call and all of them were dequeued again.
C10_Witness ==
  /\ thoughtLog # <<>>
  /\ events = 0
  /\ databases # {}
  /\ updateQueue = {}
  /\ ~isPushing

\* C11: isPushing is true iff some operation has enqueued its key and has not
\* made its own dequeue call yet, also when two such operations use one key.
C11_PushingWhileOwed == isPushing <=> owed # EmptyBag

\* Every operation that was started has finished: no request is pending and
\* no continuation is due.
AllFinished == conts = EmptyBag /\ ~Microtasks /\ ~clearing.active

\* C12: once all operations of the updateThoughts batches have finished, every
\* key they enqueued has been dequeued and isPushing is false, with and
\* without providers, whether the syncs succeeded or failed.
C12_BatchDequeued == (calls > 0 /\ AllFinished) => (updateQueue = {} /\ ~isPushing)

\* The part of C12 that holds: with providers, every save dequeues its key.
DequeuedWithProviders == providers => C12_BatchDequeued

\* -------------------------------------------------- claims on the registry

\* C13: per kind and id there is at most one live doc, and it is the
\* registered one; a registered doc has exactly one change observer; the
\* persistence and websocket provider tables have entries for registered ids
\* only; no observer is left on a doc that was destroyed.
C13_OneDocOneObserver ==
  \A kind \in Kinds : \A key \in KeysOf(kind) :
    LET name == documentName(kind, key)
        registered == key \in docs[kind]
    IN /\ CopiesIn(name, live) <= 1
       /\ registered <=> CopiesIn(name, live) = 1
       /\ registered => CopiesIn(name, observers) = 1
       /\ ~registered => CopiesIn(name, observers) = 0
       /\ key \in persistence[kind] => registered

\* clear has destroyed a registered doc (its deleteDB request failed) and has
\* then registered the root doc again.
C13_Witness ==
  /\ thoughtLog = << <<HOME_TOKEN, Update>> >>
  /\ lexemeLog = <<>>
  /\ events = 0
  /\ dispatched = [type |-> "alert", value |-> "Error deleting thought"]
  /\ HOME_TOKEN \in thoughtDocs

\* ------------------------------------------------- claims on I/O failures

\* The alert dispatched with msg.
Alerted(msg) == dispatched' = [type |-> "alert", value |-> msg]

\* The request that c waits for is settled in this step.
Settled(c) == CopiesIn(c, conts') = CopiesIn(c, conts) - 1

\* C14: when the sync of a replicate or of an update fails, or a deleteDB
\* request fails, no promise of the data provider rejects: the alert is
\* dispatched, the operation completes (a replication task is fulfilled, clear
\* goes on), and the failed update or delete still dequeues its key.
C14_Step ==
  /\ rejections' = {}
  /\ \A c \in Waiting :
       /\ replicated(c, FALSE) =>
            /\ Alerted("Error loading thought")
            /\ Settled(c)
            /\ c.task > 0 => status'[c.task] = "fulfilled"
       /\ saved(c, FALSE) =>
            /\ Alerted("Error saving thought")
            /\ Settled(c)
            /\ owed' = owed (-) SetToBag({c.key})
       /\ deleted(c, FALSE) =>
            /\ Alerted("Error deleting thought")
            /\ Settled(c)
            /\ owed' = owed (-) SetToBag({c.key})
            /\ c.owner = "clear" => clearing'.left = clearing.left - 1

C14_FailuresAlertNeverReject == [][C14_Step]_vars

\* A deleteDB request has failed, its key is dequeued and nothing is pending.
C14_Witness ==
  /\ dispatched = [type |-> "alert", value |-> "Error deleting thought"]
  /\ owed = EmptyBag
  /\ conts = EmptyBag
  /\ rejections = {}
  /\ calls > 0

\* ------------------------------------------------- claims on the root gate

\* C15: rootSynced is resolved only with the content of a root doc that is
\* registered and not empty, never with an empty or a missing one.
C15_RootGateNeedsContent == rootSynced.resolved => rootSynced.value = "root"

\* The sync of a replicateThought(HOME_TOKEN) call succeeds in this step.
RootSyncs(c) ==
  /\ c.op = "replicate" /\ c.kind = "thought" /\ c.key = HOME_TOKEN /\ c.io
  /\ replicated(c, TRUE)

\* C16: however many replicateThought(HOME_TOKEN) calls sync, also after the
\* root doc was deleted and created again, rootSynced is resolved once: after
\* a sync it is resolved, and once resolved its value never changes.
C16_Step ==
  /\ rootSynced.resolved => rootSynced' = rootSynced
  /\ \A c \in Waiting : RootSyncs(c) => rootSynced'.resolved

C16_ResolvedOnce == [][C16_Step]_vars

\* rootSynced was resolved by a first sync; clear then deleted the root doc
\* and created it again with content, and the sync of that doc has succeeded
\* too.
C16_Witness ==
  /\ providers
  /\ rootSynced = [resolved |-> TRUE, value |-> "{}"]
  /\ thoughtLog = << <<HOME_TOKEN, Update>> >>
  /\ documentName("thought", HOME_TOKEN) \in filled
  /\ dispatched.type = "none"
  /\ ~\E c \in Waiting : c.op = "replicate" /\ c.key = HOME_TOKEN

\* C17: after updateThoughts has written a thought into its doc, whatever the
\* doc held before, the thought the doc projects to is the db form of the
\* thought written: the same fields and the same (key, child id) pairs.
C17_WriteThenProject ==
  (written.holder = "A" /\ written.times = 1) => getThought(ydoc["A"]) = {written.entity}

\* C18: when the devices A and B have added the children c1 and c2 to p and
\* all replicas have exchanged their updates, the childrenMap of p has both
\* children on both devices.
C18_BothChildrenSurvive ==
  (added["A"] = {"c1"} /\ added["B"] = {"c2"} /\ ydoc["A"] = ydoc["S"] /\ ydoc["B"] = ydoc["S"])
    => \A d \in Devices : \A t \in getThought(ydoc[d]) :
         {<<"c1", "c1">>, <<"c2", "c2">>} \subseteq t.childrenMap

\* C19: when the same input has been applied a second time, the doc of the
\* entity projects to what it projected to after the first time.
C19_SecondWriteChangesNothing ==
  written.times = 2 => projection(ydoc[written.holder], written.holder) = written.projected

\* A thought with a child was written over a doc that held other children
\* under other keys, and then written again.
C19_Witness ==
  /\ written.times = 2
  /\ written.holder = "A"
  /\ written.entity.childrenMap = {<<"c1", "c1">>}
  /\ ydoc["A"].entries = {<<"A", "c1", "c1">>}

\* C20: when clear has finished, that is at the step after its await that
\* ends it, the registries of both kinds hold no doc and no persistence.
C20_Step ==
  clearResume => \A kind \in Kinds : docs'[kind] = {} /\ persistence'[kind] = {}

C20_ClearEmptiesRegistries == [][C20_Step]_vars

\* C27: whenever tick starts a task, it is the task at the tail of the queue,
\* which is the one added last of those still queued; the others stay queued
\* in their order.
C27_Step ==
  (tickResume /\ queue # <<>>) =>
    LET t == queue[Len(queue)] IN
      /\ \A i \in DOMAIN queue : queue[i] <= t
      /\ status[t] = "queued" /\ status'[t] = "running"
      /\ queue' = SubSeq(queue, 1, Len(queue) - 1)

NewestOf(delta, id) ==
  delta[CHOOSE i \in DOMAIN delta :
          delta[i][1] = id /\ \A j \in DOMAIN delta : delta[j][1] = id => j <= i]

C23_Step ==
  \A delta \in RemoteDeltas :
    thoughtLogObserve(delta) =>
      LET emitted == SubSeq(tasks', Len(tasks) + 1, Len(tasks')) IN
        /\ \A i \in DOMAIN emitted : \E j \in DOMAIN delta : emitted[i][1] = delta[j][1]
        /\ \A j \in DOMAIN delta :
             /\ Cardinality({i \in DOMAIN emitted : emitted[i][1] = delta[j][1]}) = 1
             /\ \A i \in DOMAIN emitted :
                  emitted[i][1] = delta[j][1] => emitted[i] = NewestOf(delta, delta[j][1])

C23_OneTaskPerIdNewest == [][C23_Step]_vars

\* The delta [x Update, root Update, x Delete] gave one task for x, the
\* Delete, and one for the root, and both have run to their end.
C23_Witness ==
  /\ thoughtLog = << <<"x", Update>>, <<HOME_TOKEN, Update>>, <<"x", Delete>> >>
  /\ tasks = << <<"x", Delete>>, <<HOME_TOKEN, Update>> >>
  /\ \A t \in DOMAIN status : status[t] = "resolved"

\* C24: the entries of a remote delta of lexemeLog that the observer services
\* are given to the replication queue as tasks, which counts them in total.
C24_Step ==
  \A delta \in Deltas(LexemeKeys, 1) :
    lexemeLogObserve(delta) =>
      /\ total' = total + Len(survivors(delta))
      /\ Len(tasks') = Len(tasks) + Len(survivors(delta))

C24_LexemesThroughQueue == [][C24_Step]_vars

\* The deleteDB requests of the entity that are pending.
Drops(bag, kind, key) ==
  LET S == {c \in BagToSet(bag) : c.op = "deleteDB" /\ c.kind = kind /\ c.key = key}
  IN BagCardinality([c \in S |-> CopiesIn(c, bag)])

\* C25: a delete enqueues the key, takes the observer off before it destroys
\* the doc, removes the table entries and asks for the database of the
\* document name to be dropped, whether a doc of the id was in memory or not;
\* the key is dequeued when the request has settled, and not before.
C25_Step ==
  /\ attached' = {}
  /\ conts' # conts =>
       \A kind \in Kinds : \A key \in KeysOf(kind) :
         Drops(conts', kind, key) > Drops(conts, kind, key) =>
           /\ key \in updateQueue' /\ isPushing'
           /\ CopiesIn(key, owed') > CopiesIn(key, owed)
           /\ key \notin docs'[kind] /\ key \notin persistence'[kind]
           /\ CopiesIn(documentName(kind, key), observers') = 0
           /\ CopiesIn(documentName(kind, key), live') = 0
  /\ calls' = calls + 1 =>
       \A tUpd \in Updates({"x"}, 1), lUpd \in Updates(LexemeKeys, 1) :
         updateThoughts(tUpd, lUpd) =>
           /\ \A i \in DOMAIN tUpd :
                ~tUpd[i][2] => Drops(conts', "thought", tUpd[i][1]) = Drops(conts, "thought", tUpd[i][1]) + 1
           /\ \A i \in DOMAIN lUpd :
                ~lUpd[i][2] => Drops(conts', "lexeme", lUpd[i][1]) = Drops(conts, "lexeme", lUpd[i][1]) + 1
  /\ owed' # owed =>
       /\ \A c \in Waiting : \A ok \in BOOLEAN :
            deleted(c, ok) =>
              /\ owed' = owed (-) SetToBag({c.key})
              /\ ok => documentName(c.kind, c.key) \notin databases'
       /\ \A key \in UNION {KeysOf(kind) : kind \in Kinds} :
            CopiesIn(key, owed') < CopiesIn(key, owed) =>
              \E c \in Waiting : \E ok \in BOOLEAN : saved(c, ok) \/ deleted(c, ok)
  /\ owed' = owed => \A c \in Waiting : \A ok \in BOOLEAN : ~deleted(c, ok)

C25_DeleteInOrder == [][C25_Step]_vars

\* deleteThought(x) was called with no doc of x in memory, its deleteDB
\* request has succeeded and x was dequeued; before that, the doc of the
\* lexeme x was deleted while registered.
C25_Witness ==
  /\ thoughtLog = << <<"x", Delete>> >>
  /\ lexemeLog = << <<"x", Update>>, <<"x", Delete>> >>
  /\ conts = EmptyBag /\ owed = EmptyBag /\ ~isPushing
  /\ databases = {}
  /\ dispatched.type = "none"

\* C28: a getThoughtById / getLexemeById call whose wait has ended gives a
\* thought or nothing; it never throws for want of a doc in the table.
C28_GetNeverThrows == got # "TypeError"

\* C21: the promise a call of updateThoughts returned is resolved exactly
\* when none of the deletes of its batch is still under way; the transactions
\* of its updates were made within the call, and their saves are not waited for.
C21_ResolvedWhenDeletesDone ==
  \A n \in DOMAIN returned :
    returned[n].resolved <=> ~\E c \in Waiting : c.op = "deleteDB" /\ c.owner = Call(n)

\* The one call updated the root and deleted the lexeme x: its promise is
\* resolved, the root is written, and the save of the root is still pending
\* with the root in updateQueue.
C21_Witness ==
  /\ call.n = Len(returned) /\ Len(returned) = Len(call.thoughtIndexUpdates)
  /\ call.thoughtIndexUpdates = << <<HOME_TOKEN, TRUE>> >>
  /\ call.lexemeIndexUpdates = << <<"x", FALSE>> >>
  /\ returned[call.n].resolved
  /\ documentName("thought", HOME_TOKEN) \in filled
  /\ HOME_TOKEN \in updateQueue /\ isPushing
  /\ \E c \in Waiting : c.op = "save" /\ c.key = HOME_TOKEN

\* C22: a local updateThoughts puts off no dispatch of an entity observer and
\* gives the replication queue no task: its transactions have the client id
\* of their doc as origin.
C22_Step ==
  \A tUpd \in Updates({"x"}, 1) :
    updateThoughts(tUpd, <<>>) =>
      /\ timeouts' = timeouts
      /\ state' = state
      /\ total' = total /\ tasks' = tasks /\ queue' = queue /\ pending' = pending

C22_NoEcho == [][C22_Step]_vars

\* The application has updated x, whose doc is written and observed, and
\* nothing was put off, dispatched or queued.
C22_Witness ==
  /\ thoughtLog = << <<"x", Update>> >>
  /\ documentName("thought", "x") \in filled
  /\ CopiesIn(documentName("thought", "x"), observers) > 0
  /\ calls > 0 /\ events = 0
  /\ timeouts = <<>> /\ total = 0 /\ dispatched.type = "none"

\* C26: the callback of an entity observer dispatches the entity, with local
\* false, remote false and repairCursor true, only if the entity or one of
\* those it names is in the application state when the callback runs;
\* otherwise it dispatches nothing. A transaction that leaves the doc empty
\* puts off nothing.
C26_Step ==
  /\ timeout =>
       LET d == Head(timeouts) IN
         IF d.key \in state[d.kind] \/ d.near \cap state.thought # {}
         THEN /\ dispatched' = [type |-> "updateThoughts", kind |-> d.kind, key |-> d.key,
                                value |-> "entity", local |-> FALSE, remote |-> FALSE,
                                repairCursor |-> TRUE]
              /\ state' = [state EXCEPT ![d.kind] = @ \cup {d.key}]
         ELSE dispatched' = dispatched /\ state' = state
  /\ \A kind \in Kinds, content \in Contents :
       entityObserve(kind, "x", content) =>
         /\ dispatched' = dispatched /\ state' = state
         /\ content.empty => timeouts' = timeouts
         /\ ~content.empty => Len(timeouts') = Len(timeouts) + 1

C26_DispatchOnlyIfLoaded == [][C26_Step]_vars

\* A callback found neither x nor what x names in the application state and
\* dispatched nothing: x was changed by a provider, and is not in the state.
C26_Witness ==
  /\ events = MaxEvents - 1
  /\ dispatched.type = "none"
  /\ timeouts = <<>>
  /\ documentName("thought", "x") \in filled
  /\ "x" \notin state.thought
  /\ thoughtLog = << <<"x", Update>> >>
  /\ conts = EmptyBag

\* C29: when the last dispatch was that of a remote Delete task, which set x
\* to null and deleted the doc of x, a callback of the observer of x, put off
\* before, leaves the application state as it is.
C29_Step ==
  ( /\ timeout
    /\ Head(timeouts).kind = "thought" /\ Head(timeouts).key \notin thoughtDocs
    /\ dispatched.type = "updateThoughts" /\ dispatched.value = "null"
    /\ dispatched.kind = "thought" /\ dispatched.key = Head(timeouts).key )
    => state' = state

C29_NoSnapshotAfterDelete == [][C29_Step]_vars

====
